---- MODULE Spec2Model ----
(***************************************************************************)
(* Model of package logging (src/logging/logging.go): severity loggers for *)
(* Google Cloud Functions that forward to a Stackdriver backend and fall   *)
(* back to the console when the backend handle is unset.                   *)
(*                                                                         *)
(* Texts are sequences of one-character strings.  The console streams and  *)
(* the backend are write-only sinks the package never reads back: the      *)
(* model keeps how many writes each has received, and the variable `last`  *)
(* holds the most recent call with its inputs and everything it wrote.     *)
(***************************************************************************)
EXTENDS Integers, Sequences, FiniteSets

VARIABLES
    pc,          \* "start" before func init has run, "ready" after
    logger,      \* var logger *logging.Logger (line 27)
    stdout,      \* number of lines written to os.Stdout
    stderr,      \* number of lines written to os.Stderr
    handed,      \* number of entries handed to logger.Log
    transmitted, \* entries the backend has transmitted
    dropped,     \* entries the backend failed to transmit
    backendErr,  \* the backend holds a transmission error not yet reported
    req,         \* per handler: the request it last passed to ForRequest
    ctx,         \* per handler: the context.Context it holds
    lg,          \* per handler: the Logger value it holds
    ncalls,      \* number of Print/Println/Printf calls made
    last         \* the most recent call: inputs, receiver, writes, result

vars == <<pc, logger, stdout, stderr, handed, transmitted, dropped,
          backendErr, req, ctx, lg, ncalls, last>>

-----------------------------------------------------------------------------
(* Bounds of the model.                                                    *)

MaxCalls == 2

MaxCtxDepth == 2

Handlers == {"h1", "h2"}

-----------------------------------------------------------------------------
(* Severities of cloud.google.com/go/logging, as the factories name them.  *)

loggingDefault == 0

loggingDebug == 100

loggingInfo == 200

loggingNotice == 300

loggingWarning == 400

loggingError == 500

loggingCritical == 600

loggingAlert == 700

loggingEmergency == 800

Severities == {loggingDefault, loggingDebug, loggingInfo, loggingNotice,
               loggingWarning, loggingError, loggingCritical, loggingAlert,
               loggingEmergency}

-----------------------------------------------------------------------------
(* Texts and package fmt.                                                  *)

NL == "\n"

\* An operand of Print/Println/Printf: a string or an int.
Str(s) == [isString |-> TRUE, str |-> s, num |-> 0]

Num(n) == [isString |-> FALSE, str |-> <<>>, num |-> n]

Digits == <<"0", "1", "2", "3", "4", "5", "6", "7", "8", "9">>

RECURSIVE Itoa(_)
Itoa(n) ==
    IF n < 0 THEN <<"-">> \o Itoa(-n)
    ELSE IF n < 10 THEN <<Digits[n + 1]>>
    ELSE Itoa(n \div 10) \o <<Digits[(n % 10) + 1]>>

\* The %v format of an operand.
FormatV(a) == IF a.isString THEN a.str ELSE Itoa(a.num)

TypeName(a) == IF a.isString THEN <<"s", "t", "r", "i", "n", "g">>
               ELSE <<"i", "n", "t">>

\* fmt.Sprint: a space between operands when neither is a string.
RECURSIVE SprintFrom(_, _)
SprintFrom(v, i) ==
    IF i > Len(v) THEN <<>>
    ELSE (IF i > 1 /\ ~v[i].isString /\ ~v[i - 1].isString
          THEN <<" ">> ELSE <<>>)
         \o FormatV(v[i]) \o SprintFrom(v, i + 1)

Sprint(v) == SprintFrom(v, 1)

\* fmt.Sprintln: a space between all operands, and a newline appended.
RECURSIVE SprintlnFrom(_, _)
SprintlnFrom(v, i) ==
    IF i > Len(v) THEN <<NL>>
    ELSE (IF i > 1 THEN <<" ">> ELSE <<>>)
         \o FormatV(v[i]) \o SprintlnFrom(v, i + 1)

Sprintln(v) == SprintlnFrom(v, 1)

\* The verbs fmt accepts for an operand of each type, among those modelled.
GoodVerb(c, a) == IF a.isString THEN c \in {"v", "s"} ELSE c \in {"v", "d"}

\* fmt's %!verb(type=value) for a verb the operand does not accept.
BadVerb(c, a) ==
    <<"%", "!", c, "(">> \o TypeName(a) \o <<"=">> \o FormatV(a) \o <<")">>

RECURSIVE ExtraFrom(_, _, _)
ExtraFrom(v, first, i) ==
    IF i > Len(v) THEN <<")">>
    ELSE (IF i > first THEN <<",", " ">> ELSE <<>>)
         \o TypeName(v[i]) \o <<"=">> \o FormatV(v[i])
         \o ExtraFrom(v, first, i + 1)

\* fmt.Sprintf with plain verbs (no flags, width or precision).
RECURSIVE SprintfFrom(_, _, _, _)
SprintfFrom(f, i, v, k) ==
    IF i > Len(f)
    THEN IF k <= Len(v)
         THEN <<"%", "!", "(", "E", "X", "T", "R", "A", " ">>
              \o ExtraFrom(v, k, k)
         ELSE <<>>
    ELSE IF f[i] # "%" THEN <<f[i]>> \o SprintfFrom(f, i + 1, v, k)
    ELSE IF i = Len(f)
    THEN <<"%", "!", "(", "N", "O", "V", "E", "R", "B", ")">>
         \o SprintfFrom(f, i + 1, v, k)
    ELSE IF f[i + 1] = "%" THEN <<"%">> \o SprintfFrom(f, i + 2, v, k)
    ELSE IF k > Len(v)
    THEN <<"%", "!", f[i + 1], "(", "M", "I", "S", "S", "I", "N", "G", ")">>
         \o SprintfFrom(f, i + 2, v, k)
    ELSE (IF GoodVerb(f[i + 1], v[k]) THEN FormatV(v[k])
          ELSE BadVerb(f[i + 1], v[k]))
         \o SprintfFrom(f, i + 2, v, k + 1)

Sprintf(f, v) == SprintfFrom(f, 1, v, 1)

\* Faulty variant of TrimRight: drops one trailing character only, as
\* strings.TrimSuffix(s, "\n") would.
TrimSuffix(s, cutset) ==
    IF Len(s) > 0 /\ s[Len(s)] \in cutset
    THEN SubSeq(s, 1, Len(s) - 1)
    ELSE s

\* strings.TrimRight(s, cutset): drop every trailing character of the cutset.
RECURSIVE TrimRight(_, _)
TrimRight(s, cutset) ==
    IF Len(s) > 0 /\ s[Len(s)] \in cutset
    THEN TrimRight(SubSeq(s, 1, Len(s) - 1), cutset)
    ELSE s

-----------------------------------------------------------------------------
(* context.Context: a chain of key/value pairs, the newest last.           *)

NilCtx == [isNil |-> TRUE, chain |-> <<>>]

Background == [isNil |-> FALSE, chain |-> <<>>]

\* The private key of this package (line 62) and the key of package metadata.
contextKey == "logging.contextKey{}"

metadataKey == "metadata.contextKey(metadata)"

WithValue(c, key, val) ==
    [isNil |-> FALSE, chain |-> Append(c.chain, [key |-> key, val |-> val])]

\* ctx.Value(key): the value bound last to the key, if any.
RECURSIVE ValueFrom(_, _, _)
ValueFrom(chain, i, key) ==
    IF i = 0 THEN [ok |-> FALSE, val |-> ""]
    ELSE IF chain[i].key = key THEN [ok |-> TRUE, val |-> chain[i].val]
    ELSE ValueFrom(chain, i - 1, key)

Value(c, key) == ValueFrom(c.chain, Len(c.chain), key)

\* metadata.FromContext: the invocation metadata of the platform, or nil.
FromContext(c) ==
    LET m == Value(c, metadataKey)
    IN  [isNil |-> ~m.ok, EventID |-> m.val]

-----------------------------------------------------------------------------
(* Requests.                                                                *)

ExecutionIdHeader == "Function-Execution-Id"

HeaderNames == {ExecutionIdHeader, "Content-Type"}

\* http.Header.Get: the first value of the key, "" when there is none.
HeaderGet(hdr, key) ==
    IF key \in DOMAIN hdr /\ Len(hdr[key]) > 0 THEN hdr[key][1] ELSE ""

\* r.Context(): the request's context, Background when it has none.
RequestContext(r) == IF r.ctx.isNil THEN Background ELSE r.ctx

NoRequest == [ctx |-> NilCtx, Header |-> [n \in HeaderNames |-> <<>>]]

\* Faulty variant of ForRequest: keeps the id the context already carries.
ForRequestKeepsOld(r) ==
    LET c  == RequestContext(r)
        id == HeaderGet(r.Header, ExecutionIdHeader)
    IN  IF id # "" /\ ~Value(c, contextKey).ok
        THEN WithValue(c, contextKey, id) ELSE c

\* Faulty variant of ForRequest: stores the header value even when empty.
ForRequestAlwaysStores(r) ==
    LET c  == RequestContext(r)
        id == HeaderGet(r.Header, ExecutionIdHeader)
    IN  WithValue(c, contextKey, id)

\* func ForRequest(r *http.Request) context.Context (lines 65-72).
ForRequest(r) ==
    LET c  == RequestContext(r)
        id == HeaderGet(r.Header, ExecutionIdHeader)
    IN  IF id # "" THEN WithValue(c, contextKey, id) ELSE c

-----------------------------------------------------------------------------
(* Logger values (lines 83-86) and their construction (lines 129-139).     *)

NoLogger == [s |-> -1, id |-> ""]

\* Faulty variant of newLogger: the header-derived id wins over the metadata.
newLoggerHeaderFirst(c, s) ==
    IF ~c.isNil
    THEN LET v == Value(c, contextKey)
         IN  IF v.ok
             THEN [s |-> s, id |-> v.val]
             ELSE LET meta == FromContext(c)
                  IN  [s |-> s, id |-> IF ~meta.isNil THEN meta.EventID
                                       ELSE ""]
    ELSE [s |-> s, id |-> ""]

newLogger(c, s) ==
    IF ~c.isNil
    THEN LET meta == FromContext(c)
         IN  IF ~meta.isNil
             THEN [s |-> s, id |-> meta.EventID]
             ELSE LET v == Value(c, contextKey)
                  IN  [s |-> s, id |-> IF v.ok THEN v.val ELSE ""]
    ELSE [s |-> s, id |-> ""]

-----------------------------------------------------------------------------
(* The backend handle and the environment read by func init.               *)

EnvNames == {"GCP_PROJECT", "FUNCTION_NAME", "FUNCTION_REGION"}

NoEnv == [n \in EnvNames |-> [set |-> FALSE, val |-> ""]]

\* os.Getenv: the value of the variable, "" when it is unset.
Getenv(env, n) == IF env[n].set THEN env[n].val ELSE ""

NilLogger == [isNil |-> TRUE, project |-> "", logID |-> "",
              resType |-> "", region |-> "", function_name |-> ""]

NoErr == "nil"

NoEntry == [Severity |-> -1, Payload |-> <<>>, hasLabels |-> FALSE,
            Labels |-> {}]

\* The record of a call: the operation, the handler making it, its inputs
\* (receiver l, format f, operands v, formatted text, request r, context c,
\* environment env and client error cerr) and its effects (fd and line of a console write, the
\* entry handed to the backend, the error returned).
NoEvent == [op |-> "none", h |-> "none", l |-> NoLogger, f |-> <<>>,
            v |-> <<>>, text |-> <<>>,
            r |-> NoRequest, c |-> NilCtx, env |-> NoEnv, cerr |-> NoErr,
            fd |-> "none", line |-> <<>>, entry |-> NoEntry, err |-> NoErr]

Event(op, h) == [NoEvent EXCEPT !.op = op, !.h = h]

-----------------------------------------------------------------------------
(* Writes to the console and to the backend.                               *)

\* fmt.Fprintln(os.Stderr, v...): one line on the error stream.
FprintlnStderr(e, v) ==
    /\ stderr' = stderr + 1
    /\ last' = [e EXCEPT !.fd = "stderr", !.line = Sprintln(v)]
    /\ UNCHANGED <<stdout, handed>>

\* fmt.Println(v...): one line on standard output.
PrintlnStdout(e, v) ==
    /\ stdout' = stdout + 1
    /\ last' = [e EXCEPT !.fd = "stdout", !.line = Sprintln(v)]
    /\ UNCHANGED <<stderr, handed>>

\* logger.Log(entry): the backend buffers the entry.
BackendLog(e, entry) ==
    /\ handed' = handed + 1
    /\ last' = [e EXCEPT !.fd = "backend", !.entry = entry]
    /\ UNCHANGED <<stdout, stderr>>

-----------------------------------------------------------------------------
(* func init (lines 29-60).                                                *)

Failed == Str(<<"Failed to create logging client:">>)

Unset(n) == Str(<<n, " environment variable unset or missing">>)

\* Faulty variant of init: FUNCTION_REGION is not checked.
initNoRegion(env, cerr) ==
    /\ pc = "start"
    /\ pc' = "ready"
    /\ LET project  == Getenv(env, "GCP_PROJECT")
           function == Getenv(env, "FUNCTION_NAME")
           region   == Getenv(env, "FUNCTION_REGION")
           e        == [Event("init", "main") EXCEPT !.env = env,
                                                      !.cerr = cerr]
       IN  IF project = ""
           THEN /\ FprintlnStderr(e, <<Failed, Unset("GCP_PROJECT")>>)
                /\ UNCHANGED logger
           ELSE IF function = ""
           THEN /\ FprintlnStderr(e, <<Failed, Unset("FUNCTION_NAME")>>)
                /\ UNCHANGED logger
           ELSE IF cerr # NoErr
           THEN /\ FprintlnStderr(e, <<Failed, Str(<<cerr>>)>>)
                /\ UNCHANGED logger
           ELSE /\ logger' = [isNil |-> FALSE, project |-> project,
                              logID |-> "cloudfunctions.googleapis.com/cloud-functions",
                              resType |-> "cloud_function", region |-> region,
                              function_name |-> function]
                /\ last' = e
                /\ UNCHANGED <<stdout, stderr, handed>>
    /\ UNCHANGED <<transmitted, dropped, backendErr, req, ctx, lg, ncalls>>

init(env, cerr) ==
    /\ pc = "start"
    /\ pc' = "ready"
    /\ LET project  == Getenv(env, "GCP_PROJECT")
           function == Getenv(env, "FUNCTION_NAME")
           region   == Getenv(env, "FUNCTION_REGION")
           e        == [Event("init", "main") EXCEPT !.env = env,
                                                      !.cerr = cerr]
       IN  IF project = ""
           THEN /\ FprintlnStderr(e, <<Failed, Unset("GCP_PROJECT")>>)
                /\ UNCHANGED logger
           ELSE IF function = ""
           THEN /\ FprintlnStderr(e, <<Failed, Unset("FUNCTION_NAME")>>)
                /\ UNCHANGED logger
           ELSE IF region = ""
           THEN /\ FprintlnStderr(e, <<Failed, Unset("FUNCTION_REGION")>>)
                /\ UNCHANGED logger
           ELSE IF cerr # NoErr
           THEN /\ FprintlnStderr(e, <<Failed, Str(<<cerr>>)>>)
                /\ UNCHANGED logger
           ELSE /\ logger' = [isNil |-> FALSE, project |-> project,
                              logID |-> "cloudfunctions.googleapis.com/cloud-functions",
                              resType |-> "cloud_function", region |-> region,
                              function_name |-> function]
                /\ last' = e
                /\ UNCHANGED <<stdout, stderr, handed>>
    /\ UNCHANGED <<transmitted, dropped, backendErr, req, ctx, lg, ncalls>>

-----------------------------------------------------------------------------
(* A handler derives its context from a request.                           *)

\* ctx := logging.ForRequest(r) (line 7).
CallForRequest(h, r) ==
    /\ pc = "ready"
    /\ Len(ForRequest(r).chain) <= MaxCtxDepth
    /\ req' = [req EXCEPT ![h] = r]
    /\ ctx' = [ctx EXCEPT ![h] = ForRequest(r)]
    /\ last' = [Event("ForRequest", h) EXCEPT !.r = r, !.c = ForRequest(r)]
    /\ UNCHANGED <<pc, logger, stdout, stderr, handed, transmitted, dropped,
                   backendErr, lg, ncalls>>

-----------------------------------------------------------------------------
(* The nine factories (lines 141-184).                                     *)

Factory(op, h, l) ==
    /\ pc = "ready"
    /\ lg' = [lg EXCEPT ![h] = l]
    /\ last' = [Event(op, h) EXCEPT !.c = ctx[h], !.l = l]
    /\ UNCHANGED <<pc, logger, stdout, stderr, handed, transmitted, dropped,
                   backendErr, req, ctx, ncalls>>

Default(h) == Factory("Default", h, newLogger(ctx[h], loggingDefault))

Debug(h) == Factory("Debug", h, newLogger(ctx[h], loggingDebug))

Info(h) == Factory("Info", h, newLogger(ctx[h], loggingInfo))

Notice(h) == Factory("Notice", h, newLogger(ctx[h], loggingNotice))

Warning(h) == Factory("Warning", h, newLogger(ctx[h], loggingWarning))

Error(h) == Factory("Error", h, newLogger(ctx[h], loggingError))

Critical(h) == Factory("Critical", h, newLogger(ctx[h], loggingCritical))

Alert(h) == Factory("Alert", h, newLogger(ctx[h], loggingAlert))

Emergency(h) == Factory("Emergency", h, newLogger(ctx[h], loggingEmergency))

FactoryOps == {"Default", "Debug", "Info", "Notice", "Warning", "Error",
               "Critical", "Alert", "Emergency"}

-----------------------------------------------------------------------------
(* func (l Logger) log(s string) (lines 88-110) and its three callers.     *)

\* Faulty variant of log: the text is not trimmed.
logUntrimmed(e, l, s) ==
    IF ~logger.isNil
    THEN BackendLog(e, [Severity  |-> l.s,
                        Payload   |-> s,
                        hasLabels |-> l.id # "",
                        Labels    |-> IF l.id # ""
                                      THEN {<<"execution_id", l.id>>}
                                      ELSE {}])
    ELSE IF l.s >= loggingError
    THEN FprintlnStderr(e, <<Str(s)>>)
    ELSE PrintlnStdout(e, <<Str(s)>>)

\* Faulty variant of log: only severities above error go to the error stream.
logAboveError(e, l, s) ==
    LET t == TrimRight(s, {NL})
    IN  IF ~logger.isNil
        THEN BackendLog(e, [Severity  |-> l.s,
                            Payload   |-> t,
                            hasLabels |-> l.id # "",
                            Labels    |-> IF l.id # ""
                                          THEN {<<"execution_id", l.id>>}
                                          ELSE {}])
        ELSE IF l.s > loggingError
        THEN FprintlnStderr(e, <<Str(t)>>)
        ELSE PrintlnStdout(e, <<Str(t)>>)

\* Faulty variant of log: the label is attached even when the id is empty.
logAlwaysLabels(e, l, s) ==
    LET t == TrimRight(s, {NL})
    IN  IF ~logger.isNil
        THEN BackendLog(e, [Severity  |-> l.s,
                            Payload   |-> t,
                            hasLabels |-> TRUE,
                            Labels    |-> {<<"execution_id", l.id>>}])
        ELSE IF l.s >= loggingError
        THEN FprintlnStderr(e, <<Str(t)>>)
        ELSE PrintlnStdout(e, <<Str(t)>>)

log(e, l, s) ==
    LET t == TrimRight(s, {NL})
    IN  IF ~logger.isNil
        THEN BackendLog(e, [Severity  |-> l.s,
                            Payload   |-> t,
                            hasLabels |-> l.id # "",
                            Labels    |-> IF l.id # ""
                                          THEN {<<"execution_id", l.id>>}
                                          ELSE {}])
        ELSE IF l.s >= loggingError
        THEN FprintlnStderr(e, <<Str(t)>>)
        ELSE PrintlnStdout(e, <<Str(t)>>)

LogCall(e, h, s) ==
    /\ pc = "ready"
    /\ lg[h] # NoLogger
    /\ ncalls < MaxCalls
    /\ ncalls' = ncalls + 1
    /\ log([e EXCEPT !.l = lg[h], !.text = s], lg[h], s)
    /\ UNCHANGED <<pc, logger, transmitted, dropped, backendErr, req, ctx, lg>>

LoggerPrint(h, v) ==
    LogCall([Event("Print", h) EXCEPT !.v = v], h, Sprint(v))

LoggerPrintln(h, v) ==
    LogCall([Event("Println", h) EXCEPT !.v = v], h, Sprintln(v))

LoggerPrintf(h, f, v) ==
    LogCall([Event("Printf", h) EXCEPT !.f = f, !.v = v], h, Sprintf(f, v))

LogOps == {"Print", "Println", "Printf"}

-----------------------------------------------------------------------------
(* func Flush (lines 74-80) and the backend behind logger.Flush.           *)

TransmissionError == "transmission error"

Buffered == handed - transmitted - dropped

\* The backend transmits one buffered entry in the background, or fails to.
Transmit(ok) ==
    /\ pc = "ready"
    /\ Buffered > 0
    /\ IF ok
       THEN transmitted' = transmitted + 1 /\ UNCHANGED <<dropped, backendErr>>
       ELSE dropped' = dropped + 1 /\ backendErr' = TRUE /\ UNCHANGED transmitted
    /\ last' = Event("Transmit", "backend")
    /\ UNCHANGED <<pc, logger, stdout, stderr, handed, req, ctx, lg, ncalls>>

\* Faulty variant of Flush: the error of logger.Flush is not returned.
FlushSwallowsError(h, d) ==
    /\ pc = "ready"
    /\ IF ~logger.isNil
       THEN /\ d \in 0..Buffered
            /\ dropped' = dropped + d
            /\ transmitted' = transmitted + (Buffered - d)
            /\ backendErr' = FALSE
            /\ last' = Event("Flush", h)
       ELSE /\ d = 0
            /\ last' = Event("Flush", h)
            /\ UNCHANGED <<transmitted, dropped, backendErr>>
    /\ UNCHANGED <<pc, logger, stdout, stderr, handed, req, ctx, lg, ncalls>>

\* Faulty variant of Flush: the handle is cleared once flushed.
FlushClearsHandle(h, d) ==
    /\ pc = "ready"
    /\ IF ~logger.isNil
       THEN /\ d \in 0..Buffered
            /\ dropped' = dropped + d
            /\ transmitted' = transmitted + (Buffered - d)
            /\ backendErr' = FALSE
            /\ logger' = NilLogger
            /\ last' = [Event("Flush", h) EXCEPT
                          !.err = IF backendErr \/ d > 0
                                  THEN TransmissionError ELSE NoErr]
       ELSE /\ d = 0
            /\ last' = Event("Flush", h)
            /\ UNCHANGED <<logger, transmitted, dropped, backendErr>>
    /\ UNCHANGED <<pc, stdout, stderr, handed, req, ctx, lg, ncalls>>

\* logger.Flush(): every buffered entry is transmitted or fails (d of them
\* fail); the error reports the failures since the last report.
Flush(h, d) ==
    /\ pc = "ready"
    /\ IF ~logger.isNil
       THEN /\ d \in 0..Buffered
            /\ dropped' = dropped + d
            /\ transmitted' = transmitted + (Buffered - d)
            /\ backendErr' = FALSE
            /\ last' = [Event("Flush", h) EXCEPT
                          !.err = IF backendErr \/ d > 0
                                  THEN TransmissionError ELSE NoErr]
       ELSE /\ d = 0
            /\ last' = Event("Flush", h)
            /\ UNCHANGED <<transmitted, dropped, backendErr>>
    /\ UNCHANGED <<pc, logger, stdout, stderr, handed, req, ctx, lg, ncalls>>

-----------------------------------------------------------------------------
(* Inputs.                                                                  *)

Present(v) == [set |-> TRUE, val |-> v]

Absent == [set |-> FALSE, val |-> ""]

EnvValue(n) == IF n = "GCP_PROJECT" THEN "my-project"
               ELSE IF n = "FUNCTION_NAME" THEN "my-function"
               ELSE "us-central1"

\* Each variable unset, set to the empty string, or set to a value.
Environments ==
    {[n \in EnvNames |-> IF k[n] = 0 THEN Absent
                         ELSE IF k[n] = 1 THEN Present("")
                         ELSE Present(EnvValue(n))] :
        k \in [EnvNames -> 0..2]}

ClientErrors == {NoErr, "credentials: could not find default credentials"}

Header(ids) == [n \in HeaderNames |->
                   IF n = ExecutionIdHeader THEN ids ELSE <<"text/plain">>]

Init ==
    /\ pc = "start"
    /\ logger = NilLogger
    /\ stdout = 0
    /\ stderr = 0
    /\ handed = 0
    /\ transmitted = 0
    /\ dropped = 0
    /\ backendErr = FALSE
    /\ req = [h \in Handlers |-> NoRequest]
    /\ ctx = [h \in Handlers |-> NilCtx]
    /\ lg = [h \in Handlers |-> NoLogger]
    /\ ncalls = 0
    /\ last = NoEvent

-----------------------------------------------------------------------------
(* The program with two concurrent request handlers.                       *)

Requests == [ctx : {Background}, Header : {Header(<<"x">>)}]

PrintOperands == {<<Str(<<"a", NL>>)>>}

PrintlnOperands == {<<Str(<<"a">>)>>}

PrintfInputs == {<< <<"c", "=", "%", "d">>, <<Num(42)>> >>}

Next ==
    \/ \E env \in Environments, cerr \in ClientErrors : init(env, cerr)
    \/ \E h \in Handlers, r \in Requests : CallForRequest(h, r)
    \/ \E h \in Handlers : Default(h)
    \/ \E h \in Handlers : Debug(h)
    \/ \E h \in Handlers : Info(h)
    \/ \E h \in Handlers : Notice(h)
    \/ \E h \in Handlers : Warning(h)
    \/ \E h \in Handlers : Error(h)
    \/ \E h \in Handlers : Critical(h)
    \/ \E h \in Handlers : Alert(h)
    \/ \E h \in Handlers : Emergency(h)
    \/ \E h \in Handlers, v \in PrintOperands : LoggerPrint(h, v)
    \/ \E h \in Handlers, v \in PrintlnOperands : LoggerPrintln(h, v)
    \/ \E h \in Handlers, fv \in PrintfInputs : LoggerPrintf(h, fv[1], fv[2])
    \/ \E h \in Handlers, d \in 0..MaxCalls : Flush(h, d)
    \/ \E ok \in BOOLEAN : Transmit(ok)

Spec == Init /\ [][Next]_vars

-----------------------------------------------------------------------------
(* Context derivation and Logger construction, one handler, with requests  *)
(* of every shape: with and without the header, with and without platform  *)
(* metadata, and made with a context a previous ForRequest returned.       *)

Handler == "h1"

CtxPlatform ==
    {NilCtx, Background, WithValue(Background, metadataKey, "e"),
     WithValue(Background, metadataKey, ""),
     WithValue(Background, "trace", "t")}

CtxHeaders ==
    {Header(<<>>), Header(<<"">>), Header(<<"x">>), Header(<<"y", "x">>)}

CtxRequests == [ctx : CtxPlatform \cup {ctx[Handler]}, Header : CtxHeaders]

NextCtx ==
    \/ \E env \in Environments, cerr \in ClientErrors : init(env, cerr)
    \/ \E r \in CtxRequests : CallForRequest(Handler, r)
    \/ Default(Handler)
    \/ Debug(Handler)
    \/ Info(Handler)
    \/ Notice(Handler)
    \/ Warning(Handler)
    \/ Error(Handler)
    \/ Critical(Handler)
    \/ Alert(Handler)
    \/ Emergency(Handler)

SpecCtx == Init /\ [][NextCtx]_vars

-----------------------------------------------------------------------------
(* Formatting and dispatch, one handler, with operands of every shape.     *)

LogRequests ==
    [ctx : {Background}, Header : {Header(<<>>), Header(<<"x">>)}]

A == Str(<<"a">>)

Hello == Str(<<"h", "e", "l", "l", "o">>)

LogPrintOperands ==
    {<<>>, <<A>>, <<Hello>>, <<Str(<<"a", NL>>)>>, <<Str(<<"a", NL, NL>>)>>,
     <<Str(<<NL, "a", NL, "a">>)>>, <<Str(<<NL>>)>>, <<Num(4), Num(2)>>,
     <<A, Num(7)>>, <<A, Str(<<NL>>)>>}

LogPrintlnOperands ==
    {<<>>, <<A>>, <<Hello>>, <<Str(<<"a", NL>>)>>, <<A, Num(7)>>,
     <<Num(4), Num(2)>>}

LogPrintfInputs ==
    {<< <<"c", "o", "d", "e", "=", "%", "d">>, <<Num(42)>> >>,
     << <<"%", "s", NL>>, <<A>> >>,
     << <<"%", "v", NL, NL>>, <<Num(-7)>> >>,
     << <<"%", "d">>, <<A>> >>,
     << <<"%", "d", "%", "%">>, <<Num(7)>> >>,
     << <<"%", "v">>, <<>> >>,
     << <<"a">>, <<Num(7), A>> >>,
     << <<"a", "%">>, <<>> >>}

NextLog ==
    \/ \E env \in Environments, cerr \in ClientErrors : init(env, cerr)
    \/ \E r \in LogRequests : CallForRequest(Handler, r)
    \/ Default(Handler)
    \/ Debug(Handler)
    \/ Info(Handler)
    \/ Notice(Handler)
    \/ Warning(Handler)
    \/ Error(Handler)
    \/ Critical(Handler)
    \/ Alert(Handler)
    \/ Emergency(Handler)
    \/ \E v \in LogPrintOperands : LoggerPrint(Handler, v)
    \/ \E v \in LogPrintlnOperands : LoggerPrintln(Handler, v)
    \/ \E fv \in LogPrintfInputs : LoggerPrintf(Handler, fv[1], fv[2])
    \/ \E d \in 0..MaxCalls : Flush(Handler, d)
    \/ \E ok \in BOOLEAN : Transmit(ok)

SpecLog == Init /\ [][NextLog]_vars

-----------------------------------------------------------------------------
(* What the claims speak of, stated without the operators of the model.    *)

\* t is s without its trailing newlines: a prefix of s that does not end in
\* a newline and is followed in s by newlines only.
IsTrimOf(t, s) ==
    \E k \in 0..Len(s) :
        /\ t = SubSeq(s, 1, k)
        /\ \A i \in (k + 1)..Len(s) : s[i] = NL
        /\ k = 0 \/ s[k] # NL

ErrorAndAbove == {loggingError, loggingCritical, loggingAlert,
                  loggingEmergency}

BelowError == {loggingDefault, loggingDebug, loggingInfo, loggingNotice,
               loggingWarning}

\* The text a log call dispatched: the payload of its entry, or the line it
\* wrote to the console without the newline that ends the line.
Dispatched(e) ==
    IF e.fd = "backend" THEN e.entry.Payload
    ELSE SubSeq(e.line, 1, Len(e.line) - 1)

-----------------------------------------------------------------------------
(* Contexts, as the claims speak of them.                                  *)

Max(S) == CHOOSE x \in S : \A y \in S : y <= x

Bindings(c, key) == {i \in 1..Len(c.chain) : c.chain[i].key = key}

NoMetadata(c) == Bindings(c, metadataKey) = {}

\* The event id of the metadata the context carries.
EventIdOf(c) == c.chain[Max(Bindings(c, metadataKey))].val

\* The id an earlier ForRequest stored in the context, "" when none did.
DerivedIdOf(c) ==
    IF Bindings(c, contextKey) = {} THEN ""
    ELSE c.chain[Max(Bindings(c, contextKey))].val

\* The request has the execution-id header, and x is its value.
HasHeader(r, x) ==
    /\ Len(r.Header[ExecutionIdHeader]) > 0
    /\ r.Header[ExecutionIdHeader][1] = x

NoHeader(r) == r.Header[ExecutionIdHeader] = <<>>

SeverityOf(op) ==
    CASE op = "Default"   -> loggingDefault
      [] op = "Debug"     -> loggingDebug
      [] op = "Info"      -> loggingInfo
      [] op = "Notice"    -> loggingNotice
      [] op = "Warning"   -> loggingWarning
      [] op = "Error"     -> loggingError
      [] op = "Critical"  -> loggingCritical
      [] op = "Alert"     -> loggingAlert
      [] op = "Emergency" -> loggingEmergency

\* The handler has just built a Logger from the context ForRequest gave it.
DerivedLogger ==
    /\ last.op \in FactoryOps
    /\ req[last.h] # NoRequest

-----------------------------------------------------------------------------
(* C1: while the backend handle is unset no entry is handed to the         *)
(* backend, and every Print/Println/Printf call writes one line to the     *)
(* console: the trimmed text followed by a single newline.                 *)
(* Info(nil).Println("hello") writes exactly "hello\n" to standard output. *)

C1_ConsoleOnly ==
    (pc = "ready" /\ logger.isNil) =>
        /\ handed = 0
        /\ stdout + stderr = ncalls + 1
        /\ last.op \in LogOps =>
              /\ last.fd \in {"stdout", "stderr"}
              /\ last.entry = NoEntry
              /\ Len(last.line) > 0
              /\ last.line[Len(last.line)] = NL
              /\ IsTrimOf(SubSeq(last.line, 1, Len(last.line) - 1), last.text)
        /\ (last.op = "Println" /\ last.v = <<Hello>>
            /\ last.l = [s |-> loggingInfo, id |-> ""]) =>
              /\ last.fd = "stdout"
              /\ last.line = <<"h", "e", "l", "l", "o", NL>>

C1_Witness ==
    /\ pc = "ready" /\ logger.isNil
    /\ ncalls = MaxCalls
    /\ last.op = "Println" /\ last.v = <<Hello>>
    /\ last.l = [s |-> loggingInfo, id |-> ""]
    /\ last.fd = "stdout"
    /\ last.line = <<"h", "e", "l", "l", "o", NL>>

-----------------------------------------------------------------------------
(* C2: with the backend handle unset, a Print, Println or Printf call of a *)
(* Logger of severity error, critical, alert or emergency writes its line  *)
(* to the error stream and nothing to standard output; one of severity     *)
(* default, debug, info, notice or warning writes its line to standard     *)
(* output and nothing to the error stream.                                 *)

C2_StreamBySeverity ==
    [][(last'.op \in LogOps /\ ncalls' = ncalls + 1 /\ logger.isNil) =>
          /\ last'.l.s \in ErrorAndAbove \cup BelowError
          /\ last'.l.s \in ErrorAndAbove =>
                /\ last'.fd = "stderr"
                /\ stderr' = stderr + 1 /\ stdout' = stdout
          /\ last'.l.s \in BelowError =>
                /\ last'.fd = "stdout"
                /\ stdout' = stdout + 1 /\ stderr' = stderr]_vars

C2_Witness ==
    /\ logger.isNil
    /\ last.op = "Printf" /\ last.v = <<Num(42)>>
    /\ last.l.s = loggingError
    /\ last.fd = "stderr"
    /\ last.line = <<"c", "o", "d", "e", "=", "4", "2", NL>>

-----------------------------------------------------------------------------
(* C3: func init always completes.  It sets the backend handle exactly     *)
(* when the three environment variables are non-empty and the client was   *)
(* constructed; otherwise it writes one warning line to the error stream   *)
(* and leaves the handle unset, and every later log call writes to the     *)
(* console.                                                                *)

AllConfigured(env) == \A n \in EnvNames : env[n].set /\ env[n].val # ""

C3_SoftInit ==
    /\ last.op = "init" =>
          /\ pc = "ready"
          /\ ~logger.isNil <=> (AllConfigured(last.env) /\ last.cerr = NoErr)
          /\ logger.isNil =>
                /\ last.fd = "stderr" /\ stderr = 1 /\ stdout = 0
                /\ last.line[1] = "Failed to create logging client:"
                /\ last.line[Len(last.line)] = NL
          /\ ~logger.isNil =>
                /\ last.fd = "none" /\ stderr = 0 /\ stdout = 0
                /\ logger.project = last.env["GCP_PROJECT"].val
                /\ logger.region = last.env["FUNCTION_REGION"].val
                /\ logger.function_name = last.env["FUNCTION_NAME"].val
    /\ pc = "start" => logger.isNil
    /\ ~logger.isNil =>
          logger.project # "" /\ logger.region # "" /\ logger.function_name # ""
    /\ (logger.isNil /\ last.op \in LogOps) => last.fd \in {"stdout", "stderr"}

C3_Witness ==
    /\ last.op = "init" /\ pc = "ready" /\ logger.isNil
    /\ last.env["GCP_PROJECT"].val # ""
    /\ last.env["FUNCTION_NAME"].val # ""
    /\ last.env["FUNCTION_REGION"] = Present("")
    /\ last.cerr = NoErr
    /\ stderr = 1

-----------------------------------------------------------------------------
(* C4: when the request passed to ForRequest has the execution-id header   *)
(* with a non-empty value X and its context holds no platform metadata,    *)
(* the Logger any factory builds from the returned context has execution   *)
(* id X, whatever id the request's context already carried.                *)

C4_HeaderId ==
    (/\ DerivedLogger
     /\ Len(req[last.h].Header[ExecutionIdHeader]) > 0
     /\ req[last.h].Header[ExecutionIdHeader][1] # ""
     /\ NoMetadata(req[last.h].ctx)) =>
        /\ lg[last.h].id = req[last.h].Header[ExecutionIdHeader][1]
        /\ lg[last.h].s = SeverityOf(last.op)

C4_Witness ==
    /\ DerivedLogger
    /\ last.op = "Notice"
    /\ HasHeader(req[last.h], "y")
    /\ DerivedIdOf(req[last.h].ctx) = "x"
    /\ NoMetadata(req[last.h].ctx)
    /\ lg[last.h] = [s |-> loggingNotice, id |-> "y"]

-----------------------------------------------------------------------------
(* C5, as claimed: when the request has no execution-id header and its     *)
(* context holds no platform metadata, ForRequest returns the context of   *)
(* the request and the Logger built from it has an empty execution id.     *)

C5_Original ==
    (/\ DerivedLogger
     /\ NoHeader(req[last.h])
     /\ NoMetadata(req[last.h].ctx)) =>
        /\ ctx[last.h] = RequestContext(req[last.h])
        /\ lg[last.h].id = ""

(* C5, amended: when the request has no execution-id header and its        *)
(* context holds no platform metadata, ForRequest returns the context of   *)
(* the request unchanged, and the Logger built from it has the execution   *)
(* id an earlier ForRequest stored in that context, empty when none did.   *)

C5_NoHeader ==
    (/\ DerivedLogger
     /\ NoHeader(req[last.h])
     /\ NoMetadata(req[last.h].ctx)) =>
        /\ ctx[last.h] = (IF req[last.h].ctx.isNil THEN Background
                          ELSE req[last.h].ctx)
        /\ lg[last.h].id = DerivedIdOf(req[last.h].ctx)
        /\ DerivedIdOf(req[last.h].ctx) = "" => lg[last.h].id = ""

C5_Witness ==
    /\ DerivedLogger
    /\ NoHeader(req[last.h])
    /\ NoMetadata(req[last.h].ctx)
    /\ DerivedIdOf(req[last.h].ctx) = "x"
    /\ ctx[last.h] = req[last.h].ctx
    /\ lg[last.h].id = "x"

-----------------------------------------------------------------------------
(* C6: the Logger every factory builds has the event id of the platform    *)
(* metadata as execution id whenever the context carries metadata, with or *)
(* without a header-derived id; it has the header-derived id only when the *)
(* context carries no metadata, and an empty id when the context carries   *)
(* neither or is nil.                                                      *)

C6_MetadataFirst ==
    last.op \in FactoryOps =>
        /\ last.c = ctx[last.h]
        /\ lg[last.h].s = SeverityOf(last.op)
        /\ lg[last.h].id =
              (IF last.c.isNil THEN ""
               ELSE IF ~NoMetadata(last.c) THEN EventIdOf(last.c)
               ELSE DerivedIdOf(last.c))

C6_Witness ==
    /\ last.op = "Alert"
    /\ ~NoMetadata(last.c)
    /\ EventIdOf(last.c) = "e"
    /\ DerivedIdOf(last.c) = "x"
    /\ lg[last.h] = [s |-> loggingAlert, id |-> "e"]

-----------------------------------------------------------------------------
(* C7: the text a log call dispatches, as the payload of its entry or as   *)
(* the body of its console line, is the formatted text without its         *)
(* trailing newlines: it never ends in a newline, everything before the    *)
(* trailing newlines is kept, and trimming it again changes nothing.       *)
(* Println("a") and Print("a\n") both dispatch "a".                        *)

C7_TrailingNewlines ==
    last.op \in LogOps =>
        LET body == Dispatched(last)
        IN  /\ IsTrimOf(body, last.text)
            /\ Len(body) > 0 => body[Len(body)] # NL
            /\ TrimRight(body, {NL}) = body
            /\ (last.op = "Println" /\ last.v = <<A>>) => body = <<"a">>
            /\ (last.op = "Print" /\ last.v = <<Str(<<"a", NL>>)>>) =>
                  body = <<"a">>
            /\ (last.op = "Print" /\ last.v = <<Str(<<NL, "a", NL, "a">>)>>) =>
                  body = <<NL, "a", NL, "a">>

C7_Witness ==
    /\ last.op = "Println" /\ last.v = <<Str(<<"a", NL>>)>>
    /\ last.text = <<"a", NL, NL>>
    /\ last.fd = "backend"
    /\ last.entry.Payload = <<"a">>

-----------------------------------------------------------------------------
(* C8: Flush with the backend handle unset returns no error and changes    *)
(* nothing.  Flush with the handle set returns no error only when every    *)
(* buffered entry has been transmitted and no transmission failure is      *)
(* left unreported; otherwise it returns the transmission error of the     *)
(* backend.  No other call returns an error.                               *)

C8_Flush ==
    [][/\ last'.op = "Flush" =>
            IF logger.isNil
            THEN /\ last'.err = NoErr
                 /\ UNCHANGED <<pc, logger, stdout, stderr, handed,
                                transmitted, dropped, backendErr, req, ctx,
                                lg, ncalls>>
            ELSE /\ handed' - transmitted' - dropped' = 0
                 /\ last'.err = NoErr =>
                       /\ ~backendErr
                       /\ dropped' = dropped
                       /\ transmitted' = handed
                               - dropped
                 /\ last'.err # NoErr =>
                       /\ last'.err = TransmissionError
                       /\ backendErr \/ dropped' > dropped
       /\ last'.op # "Flush" => last'.err = NoErr]_vars

C8_Witness ==
    /\ ~logger.isNil
    /\ last.op = "Flush" /\ last.err = NoErr
    /\ handed = MaxCalls /\ transmitted = handed

-----------------------------------------------------------------------------
(* C9: while the backend handle is set, every Print/Println/Printf call    *)
(* hands one entry to the backend and writes nothing to the console; the   *)
(* entry has the severity of the Logger, the trimmed text as payload, and  *)
(* the single label execution_id exactly when the Logger's execution id    *)
(* is non-empty, no label map otherwise.                                   *)

C9_BackendEntry ==
    ~logger.isNil =>
        /\ handed = ncalls
        /\ stdout = 0 /\ stderr = 0
        /\ last.op \in LogOps =>
              /\ last.fd = "backend" /\ last.line = <<>>
              /\ last.l = lg[last.h]
              /\ last.entry.Severity = last.l.s
              /\ IsTrimOf(last.entry.Payload, last.text)
              /\ last.l.id # "" =>
                    /\ last.entry.hasLabels
                    /\ last.entry.Labels = {<<"execution_id", last.l.id>>}
              /\ last.l.id = "" =>
                    /\ ~last.entry.hasLabels
                    /\ last.entry.Labels = {}

C9_Witness ==
    /\ ~logger.isNil
    /\ last.op = "Print" /\ handed = MaxCalls
    /\ last.l = [s |-> loggingWarning, id |-> "x"]
    /\ last.entry.Severity = loggingWarning
    /\ last.entry.Labels = {<<"execution_id", "x">>}

-----------------------------------------------------------------------------
(* C10: the backend handle is assigned only by func init, which runs once; *)
(* ForRequest, the factories, Print, Println, Printf and Flush, called by  *)
(* concurrent handlers in any order, leave it as it is.  A Logger is never *)
(* changed after a factory has built it: a handler's Logger changes only   *)
(* when that handler calls a factory, and its context only when it calls   *)
(* ForRequest.                                                             *)

C10_Frame ==
    [][/\ logger' # logger => (pc = "start" /\ logger.isNil /\ last'.op = "init")
       /\ pc = "ready" => pc' = "ready"
       /\ \A h \in Handlers :
             /\ lg'[h] # lg[h] => (last'.op \in FactoryOps /\ last'.h = h)
             /\ ctx'[h] # ctx[h] => (last'.op = "ForRequest" /\ last'.h = h)
       /\ last'.op \in LogOps \cup {"Flush"} =>
             UNCHANGED <<pc, logger, req, ctx, lg>>]_vars

C10_Witness ==
    /\ pc = "ready" /\ logger.isNil
    /\ lg["h1"] = [s |-> loggingError, id |-> "x"]
    /\ lg["h2"] = [s |-> loggingInfo, id |-> ""]
    /\ last.op \in LogOps /\ last.h = "h2"
    /\ ncalls = 2 /\ stderr = 2 /\ stdout = 1

====
